---- MODULE Spec2Model ----
(***************************************************************************)
(* Yuzu: the SwipeInterface component (progressive-disclosure queue).     *)
(* The state is the React state of SwipeInterface, the requests it has in *)
(* flight and the onSuperlike calls it has made; one action per handler   *)
(* or promise continuation, each including the effects its state changes  *)
(* re-run.                                                                 *)
(***************************************************************************)
EXTENDS Integers, Sequences, FiniteSets, TLC

\* ------------------------------------------------------------------ bounds
QueueLen == 2
MaxExtraPass == 2
\* how far the cursor walks into the long queue
MaxWalk == 1
\* save calls suspended at the same time, and save calls per session
MaxTasks == 2
MaxSaves == 2
\* chat messages sent in one session
MaxSends == 2

\* ------------------------------------------------------- program constants
MaxLevel == 3
PrefetchCount == 5
ExitLeftX == -400
ExitRightX == 400
ExitYValue == 0

Null == <<>>
Some(v) == <<v>>

Absent == ""
Contents == {"summary"}

\* a queue longer than the prefetch takes
LongLen == PrefetchCount + 1
Ids == 1..QueueLen
\* the id of a paper whose id is the empty string
EmptyId == 0
CacheIds == {EmptyId} \cup Ids
Levels == 1..MaxLevel
Keys == CacheIds \X Levels
\* the same for the long queue
LongCacheIds == {EmptyId} \cup (1..LongLen)
LongKeys == LongCacheIds \X Levels
Sources == {"key", "button"}

VARIABLES
  papers,                 \* props.papers: the queue, a sequence of paper ids
  currentIndex,           \* useState(0)
  currentLevel,           \* useState(1)
  summaries,              \* useState(new Map()): id -> level -> text
  loading,                \* useState(false)
  exitX,                  \* useState(null)
  exitY,                  \* useState(null)
  previousExitDirection,  \* useState(null)
  fetches,                \* paperAPI.summarize calls awaiting their result
  prefetch,               \* the paperAPI.batchSummarize call of the mount effect
  hist,                   \* history: the last input or animation event, the state it
                          \* started in and the onSuperlike calls it made
  pend,                   \* history: the inputs of the current exit animation
  scn,                    \* history: progress of an Advance/complete sequence
  retry,                  \* history: a failed request for the paper and level
                          \* under the cursor, and the request issued after it
  batches,                \* the paperAPI.batchSummarize calls made so far
  late,                   \* history: the key of the summarize result that just
                          \* arrived for a key not under the cursor
  stored,                 \* localStorage item yuzu_favorites
  listed,                 \* FavoritesList: useState favorites
  tasks,                  \* handleSuperlike calls awaiting generateBibtex
  outcome,                \* history: how the last finished save call ended
  session,                \* history: save calls and first-save effects so far
  currentPaper,           \* ChatWindow props.currentPaper
  messages,               \* ChatWindow useState([]): the conversation shown
  isLoading,              \* ChatWindow useState(false)
  error,                  \* ChatWindow useState(null)
  chatStored,             \* localStorage items yuzu_chat_<id>
  chatCall,               \* the paperAPI.chat call awaiting its response
  chatHist                \* history: the last chat step, the call it ended,
                          \* the papers answered so far, the sends so far

vars == <<papers, currentIndex, currentLevel, summaries, loading, exitX, exitY,
          previousExitDirection, fetches, prefetch, hist, pend, scn, retry,
          batches, late, stored, listed, tasks, outcome, session,
          currentPaper, messages, isLoading, error, chatStored, chatCall,
          chatHist>>

saveVars == <<stored, listed, tasks, outcome, session>>

chatVars ==
  <<currentPaper, messages, isLoading, error, chatStored, chatCall, chatHist>>

\* ----------------------------------------------------------- pure helpers
\* const currentPaper = papers[currentIndex] (undefined past the end)
HasPaper(ps, idx) == idx >= 0 /\ idx < Len(ps)
PaperAt(ps, idx) == ps[idx + 1]

\* summaries.get(id)?.[`level${lvl}`] || '' (a missing entry reads as absent)
summaryOf(sums, id, lvl) ==
  IF id \in DOMAIN sums /\ lvl \in DOMAIN sums[id] THEN sums[id][lvl] ELSE Absent

currentSummary ==
  IF HasPaper(papers, currentIndex)
  THEN summaryOf(summaries, PaperAt(papers, currentIndex), currentLevel)
  ELSE Absent

\* the PaperCard is rendered unless the queue is over or LoadingState shows
CardRendered ==
  /\ HasPaper(papers, currentIndex)
  /\ ~(loading /\ currentSummary = Absent)

\* keyboard: dropped while loading; buttons: exist only on a rendered card
InputAllowed(src) ==
  \/ src = "key" /\ ~loading
  \/ src = "button" /\ CardRendered

\* variant: the paper id is not validated
fetchSummary_NoIdCheck(paper, lvl, sums, st) ==
  IF summaryOf(sums, paper, lvl) # Absent
  THEN st
  ELSE [loading |-> TRUE,
        fetches |-> [st.fetches EXCEPT ![<<paper, lvl>>] = @ + 1]]

\* fetchSummary up to its await: cache check, setLoading(true), then either
\* the throw for a missing id (caught, setLoading(false)) or summarize
fetchSummary(paper, lvl, sums, st) ==
  IF summaryOf(sums, paper, lvl) # Absent
  THEN st
  ELSE IF paper = EmptyId
       THEN [loading |-> FALSE, fetches |-> st.fetches]
       ELSE [loading |-> TRUE,
             fetches |-> [st.fetches EXCEPT ![<<paper, lvl>>] = @ + 1]]

\* useEffect(() => { if (currentPaper) fetchSummary(currentPaper, currentLevel) })
fetchEffect(ps, idx, lvl, sums, st) ==
  IF HasPaper(ps, idx) THEN fetchSummary(PaperAt(ps, idx), lvl, sums, st) ELSE st

\* the controller state the handlers read and write, with the onSuperlike
\* calls made by the handler that is running
Ctl ==
  [index |-> currentIndex, level |-> currentLevel, x |-> exitX, y |-> exitY,
   dir |-> previousExitDirection, saved |-> <<>>]

\* props.onSuperlike(currentPaper, currentLevel)
onSuperlike(ps, s) ==
  [s EXCEPT !.saved = Append(@, <<PaperAt(ps, s.index), s.level>>)]

\* variant: the pass is committed at once, without the exit animation
handlePass_Immediate(ps, s) ==
  IF s.index >= Len(ps) - 1
  THEN s
  ELSE [s EXCEPT !.index = @ + 1, !.level = 1]

\* variant: the guard lets the last paper be passed
handlePass_PastLast(ps, s) ==
  IF s.index >= Len(ps)
  THEN s
  ELSE [s EXCEPT !.x = Some(ExitLeftX), !.y = Some(ExitYValue), !.dir = "left"]

handlePass(ps, s) ==
  IF s.index >= Len(ps) - 1
  THEN s
  ELSE [s EXCEPT !.x = Some(ExitLeftX), !.y = Some(ExitYValue), !.dir = "left"]

\* variant: no auto-save at the last level
handleNext_NoAutoSave(ps, s) ==
  IF s.level < MaxLevel
  THEN [s EXCEPT !.x = Some(ExitRightX), !.y = Some(ExitYValue), !.dir = "right"]
  ELSE handlePass(ps, s)

\* variant: at the last level the paper is saved and the move committed at once
handleNext_CommitAtMax(ps, s) ==
  IF s.level < MaxLevel
  THEN [s EXCEPT !.x = Some(ExitRightX), !.y = Some(ExitYValue), !.dir = "right"]
  ELSE IF HasPaper(ps, s.index)
       THEN [onSuperlike(ps, s) EXCEPT !.index = @ + 1, !.level = 1]
       ELSE s

\* variant: at the last level the left exit is recorded without handlePass's
\* test for the last paper
handleNext_UnguardedPass(ps, s) ==
  IF s.level < MaxLevel
  THEN [s EXCEPT !.x = Some(ExitRightX), !.y = Some(ExitYValue), !.dir = "right"]
  ELSE [(IF HasPaper(ps, s.index) THEN onSuperlike(ps, s) ELSE s)
          EXCEPT !.x = Some(ExitLeftX), !.y = Some(ExitYValue), !.dir = "left"]

handleNext(ps, s) ==
  IF s.level < MaxLevel
  THEN [s EXCEPT !.x = Some(ExitRightX), !.y = Some(ExitYValue), !.dir = "right"]
  ELSE handlePass(ps, IF HasPaper(ps, s.index) THEN onSuperlike(ps, s) ELSE s)

\* variant: no check that there is a current paper
handleSuperlike_NoPaperCheck(ps, s) ==
  LET t == IF HasPaper(ps, s.index) THEN onSuperlike(ps, s) ELSE s
  IN IF s.level < MaxLevel
     THEN [t EXCEPT !.level = @ + 1]
     ELSE [t EXCEPT !.index = @ + 1, !.level = 1]

\* variant: the move to the next paper keeps the level
handleSuperlike_KeepLevel(ps, s) ==
  IF ~HasPaper(ps, s.index) THEN s
  ELSE IF s.level < MaxLevel
       THEN [onSuperlike(ps, s) EXCEPT !.level = @ + 1]
       ELSE [onSuperlike(ps, s) EXCEPT !.index = @ + 1]

\* variant: the superlike is animated like handleNext instead of committed
handleSuperlike_Animated(ps, s) ==
  IF ~HasPaper(ps, s.index) THEN s
  ELSE [onSuperlike(ps, s) EXCEPT !.x = Some(ExitRightX),
                                  !.y = Some(ExitYValue), !.dir = "right"]

\* variant: a save below the last level jumps to the last level
handleSuperlike_ToLast(ps, s) ==
  IF ~HasPaper(ps, s.index) THEN s
  ELSE IF s.level < MaxLevel
       THEN [onSuperlike(ps, s) EXCEPT !.level = MaxLevel]
       ELSE [onSuperlike(ps, s) EXCEPT !.index = @ + 1, !.level = 1]

\* variant: a save at the last level of the last paper does not move on
handleSuperlike_StopAtLast(ps, s) ==
  IF ~HasPaper(ps, s.index) THEN s
  ELSE IF s.level < MaxLevel
       THEN [onSuperlike(ps, s) EXCEPT !.level = @ + 1]
       ELSE IF s.index >= Len(ps) - 1
            THEN onSuperlike(ps, s)
            ELSE [onSuperlike(ps, s) EXCEPT !.index = @ + 1, !.level = 1]

handleSuperlike(ps, s) ==
  IF ~HasPaper(ps, s.index) THEN s
  ELSE IF s.level < MaxLevel
       THEN [onSuperlike(ps, s) EXCEPT !.level = @ + 1]
       ELSE [onSuperlike(ps, s) EXCEPT !.index = @ + 1, !.level = 1]

\* variant: the exit coordinates are not reset
handleAnimationComplete_KeepExit(direction, s) ==
  IF direction = "left"
  THEN [s EXCEPT !.index = @ + 1, !.level = 1]
  ELSE IF direction = "right"
       THEN IF s.level < MaxLevel
            THEN [s EXCEPT !.level = @ + 1]
            ELSE [s EXCEPT !.index = @ + 1, !.level = 1]
       ELSE s

\* variant: a right exit always raises the level
handleAnimationComplete_NoLevelCheck(direction, s) ==
  LET t == IF direction = "left"
           THEN [s EXCEPT !.index = @ + 1, !.level = 1]
           ELSE IF direction = "right"
                THEN [s EXCEPT !.level = @ + 1]
                ELSE s
  IN [t EXCEPT !.x = Null, !.y = Null]

\* variant: a left exit moves to the next paper without resetting the level
handleAnimationComplete_KeepLevel(direction, s) ==
  LET t == IF direction = "left"
           THEN [s EXCEPT !.index = @ + 1]
           ELSE IF direction = "right"
                THEN IF s.level < MaxLevel
                     THEN [s EXCEPT !.level = @ + 1]
                     ELSE [s EXCEPT !.index = @ + 1, !.level = 1]
                ELSE s
  IN [t EXCEPT !.x = Null, !.y = Null]

\* variant: only exitX is reset
handleAnimationComplete_KeepExitY(direction, s) ==
  LET t == IF direction = "left"
           THEN [s EXCEPT !.index = @ + 1, !.level = 1]
           ELSE IF direction = "right"
                THEN IF s.level < MaxLevel
                     THEN [s EXCEPT !.level = @ + 1]
                     ELSE [s EXCEPT !.index = @ + 1, !.level = 1]
                ELSE s
  IN [t EXCEPT !.x = Null]

handleAnimationComplete(direction, s) ==
  LET t == IF direction = "left"
           THEN [s EXCEPT !.index = @ + 1, !.level = 1]
           ELSE IF direction = "right"
                THEN IF s.level < MaxLevel
                     THEN [s EXCEPT !.level = @ + 1]
                     ELSE [s EXCEPT !.index = @ + 1, !.level = 1]
                ELSE s
  IN [t EXCEPT !.x = Null, !.y = Null]

\* the card reports the direction of the exit it was given
cardDirection(x) == IF x[1] < 0 THEN "left" ELSE "right"

\* ------------------------------------------------------------- histories
\* a summarize request for the paper and level under the cursor is in flight
CurrentInFlight ==
  /\ HasPaper(papers, currentIndex)
  /\ fetches[<<PaperAt(papers, currentIndex), currentLevel>>] > 0

Snapshot(ev, saved) ==
  [ev |-> ev, idx |-> currentIndex, lvl |-> currentLevel, x |-> exitX,
   saved |-> saved, arg |-> "none", busy |-> CurrentInFlight]

NoPend == [first |-> "none", idx |-> 0, extra |-> 0]

\* a Pass accepted with no exit pending opens the record; further Pass inputs
\* during that exit are counted; any other input closes it
PendAfterInput(ev, s) ==
  IF ev # "pass" THEN NoPend
  ELSE IF exitX = Null
       THEN IF s.x # Null
            THEN [first |-> "pass", idx |-> currentIndex, extra |-> 0]
            ELSE NoPend
       ELSE IF pend.first = "pass" THEN [pend EXCEPT !.extra = @ + 1]
            ELSE NoPend

NoScn == [step |-> 0, base |-> 0]

ScnAfter(ev) ==
  IF ev = "next" /\ scn.step \in {2, 4} THEN [scn EXCEPT !.step = @ + 1]
  ELSE IF ev = "animComplete" /\ scn.step \in {1, 3, 5}
       THEN [scn EXCEPT !.step = @ + 1]
  ELSE IF /\ ev = "next" /\ exitX = Null /\ currentLevel = 1
          /\ currentIndex < Len(papers) - 1
       THEN [step |-> 1, base |-> currentIndex]
  ELSE NoScn

\* papers.slice(0, 5)
firstFive(ps) == {ps[i] : i \in 1..(IF Len(ps) < PrefetchCount THEN Len(ps) ELSE PrefetchCount)}

\* paperAPI.batchSummarize(firstFive, 1)
BatchRequest(ps) == [papers |-> firstFive(ps), level |-> 1]

\* prefetchInitialSummaries up to its await: nothing for an empty slice
prefetchInitialSummaries(ps, bs) ==
  IF firstFive(ps) = {} THEN bs ELSE Append(bs, BatchRequest(ps))

\* variant: the cursor is a dependency of the prefetch effect
PrefetchDeps_WithCursor == <<papers, currentIndex, currentLevel>>

\* the dependency list of the prefetch effect
PrefetchDeps == <<papers>>

\* after a render the prefetch effect runs again when a dependency changed
RunPrefetchEffect ==
  batches' = IF PrefetchDeps' # PrefetchDeps
             THEN prefetchInitialSummaries(papers', batches)
             ELSE batches

NoOutcome ==
  [kind |-> "none", item |-> Null, before |-> <<>>, seen |-> <<>>,
   events |-> 0, toast |-> "none", first |-> FALSE]

\* page and FavoritesList mounted, nothing saved yet
SaveInit ==
  /\ stored = Null
  /\ listed = <<>>
  /\ tasks = [t \in 1..MaxTasks |-> Null]
  /\ outcome = NoOutcome
  /\ session = [saves |-> 0, firsts |-> 0]

NoChatHist == [ev |-> "none", call |-> Null, begun |-> {}, sends |-> 0]

\* ChatWindow mounted without a paper, no conversation stored yet
ChatInit ==
  /\ currentPaper = Null
  /\ messages = <<>>
  /\ isLoading = FALSE
  /\ error = Null
  /\ chatStored = [id \in Ids |-> Null]
  /\ chatCall = Null
  /\ chatHist = NoChatHist

NoRetry == [state |-> "none", was |-> Absent]

\* a request for the key under the cursor failed: the entry it found is kept
RetryAfterFailure(k) ==
  IF HasPaper(papers, currentIndex)
     /\ k = <<PaperAt(papers, currentIndex), currentLevel>>
  THEN [state |-> "failed", was |-> summaryOf(summaries, k[1], k[2])]
  ELSE retry

\* the cache became sums and the fetch effect re-ran: a write to the key under
\* the cursor closes the record, a new request for it after a failure is noted
RetryAfterLookup(sums, before, after) ==
  IF ~HasPaper(papers, currentIndex) THEN retry
  ELSE LET id == PaperAt(papers, currentIndex)
       IN IF summaryOf(sums, id, currentLevel)
               # summaryOf(summaries, id, currentLevel)
          THEN NoRetry
          ELSE IF /\ retry.state = "failed"
                  /\ after[<<id, currentLevel>>] > before[<<id, currentLevel>>]
               THEN [retry EXCEPT !.state = "again"]
               ELSE retry

\* ------------------------------------------------------------------ Init
Init ==
  /\ papers \in {[i \in 1..n |-> i] : n \in 1..QueueLen}
  /\ currentIndex = 0
  /\ currentLevel = 1
  /\ summaries = [id \in CacheIds |-> [l \in Levels |-> Absent]]
  /\ loading = TRUE
  /\ exitX = Null
  /\ exitY = Null
  /\ previousExitDirection = "null"
  /\ fetches = [k \in Keys |-> IF k = <<1, 1>> THEN 1 ELSE 0]
  /\ prefetch = IF firstFive(papers) = {} THEN "idle" ELSE "pending"
  /\ hist = [ev |-> "mount", idx |-> 0, lvl |-> 1, x |-> Null, saved |-> <<>>,
             arg |-> "none", busy |-> FALSE]
  /\ pend = NoPend
  /\ scn = NoScn
  /\ retry = NoRetry
  /\ batches = prefetchInitialSummaries(papers, <<>>)
  /\ late = Null
  /\ SaveInit
  /\ ChatInit

\* queues in which one paper has the empty id
EmptyIdQueues ==
  {[i \in 1..n |-> IF i = e THEN EmptyId ELSE i] : n \in 1..QueueLen, e \in 1..QueueLen}

\* the state after mounting such a queue
InitEmptyId ==
  /\ papers \in {q \in EmptyIdQueues : \E i \in 1..Len(q) : q[i] = EmptyId}
  /\ currentIndex = 0
  /\ currentLevel = 1
  /\ summaries = [id \in CacheIds |-> [l \in Levels |-> Absent]]
  /\ LET st == fetchEffect(papers, 0, 1, summaries,
                           [loading |-> FALSE, fetches |-> [k \in Keys |-> 0]])
     IN loading = st.loading /\ fetches = st.fetches
  /\ exitX = Null
  /\ exitY = Null
  /\ previousExitDirection = "null"
  /\ prefetch = IF firstFive(papers) = {} THEN "idle" ELSE "pending"
  /\ hist = [ev |-> "mount", idx |-> 0, lvl |-> 1, x |-> Null, saved |-> <<>>,
             arg |-> "none", busy |-> FALSE]
  /\ pend = NoPend
  /\ scn = NoScn
  /\ retry = NoRetry
  /\ batches = prefetchInitialSummaries(papers, <<>>)
  /\ late = Null
  /\ SaveInit
  /\ ChatInit

\* the state after mounting an empty queue or one longer than the prefetch
InitLong ==
  /\ papers \in {[i \in 1..n |-> i] : n \in {0, LongLen}}
  /\ currentIndex = 0
  /\ currentLevel = 1
  /\ summaries = [id \in LongCacheIds |-> [l \in Levels |-> Absent]]
  /\ LET st == fetchEffect(papers, 0, 1, summaries,
                           [loading |-> FALSE, fetches |-> [k \in LongKeys |-> 0]])
     IN loading = st.loading /\ fetches = st.fetches
  /\ exitX = Null
  /\ exitY = Null
  /\ previousExitDirection = "null"
  /\ prefetch = IF firstFive(papers) = {} THEN "idle" ELSE "pending"
  /\ hist = [ev |-> "mount", idx |-> 0, lvl |-> 1, x |-> Null, saved |-> <<>>,
             arg |-> "none", busy |-> FALSE]
  /\ pend = NoPend
  /\ scn = NoScn
  /\ retry = NoRetry
  /\ batches = prefetchInitialSummaries(papers, <<>>)
  /\ late = Null
  /\ SaveInit
  /\ ChatInit

\* --------------------------------------------------------------- actions
\* the state a handler leaves is rendered; the fetch effect re-runs when the
\* cursor changed
Commit(s) ==
  /\ currentIndex' = s.index
  /\ currentLevel' = s.level
  /\ exitX' = s.x
  /\ exitY' = s.y
  /\ previousExitDirection' = s.dir
  /\ LET st == IF s.index # currentIndex \/ s.level # currentLevel
               THEN fetchEffect(papers, s.index, s.level, summaries,
                                [loading |-> loading, fetches |-> fetches])
               ELSE [loading |-> loading, fetches |-> fetches]
     IN /\ loading' = st.loading
        /\ fetches' = st.fetches
  /\ retry' = IF s.index # currentIndex \/ s.level # currentLevel
              THEN NoRetry ELSE retry
  /\ late' = Null
  /\ UNCHANGED <<papers, summaries, prefetch>>
  /\ UNCHANGED saveVars
  /\ UNCHANGED chatVars
  /\ RunPrefetchEffect

\* ArrowLeft / the card's pass button
PassInput(src) ==
  /\ InputAllowed(src)
  /\ (exitX # Null /\ pend.first = "pass") => pend.extra < MaxExtraPass
  /\ LET s == handlePass(papers, Ctl)
     IN /\ Commit(s)
        /\ hist' = Snapshot("pass", s.saved)
        /\ pend' = PendAfterInput("pass", s)
  /\ scn' = ScnAfter("pass")

\* ArrowRight / the card's next button
NextInput(src) ==
  /\ InputAllowed(src)
  /\ LET s == handleNext(papers, Ctl)
     IN /\ Commit(s)
        /\ hist' = Snapshot("next", s.saved)
        /\ pend' = PendAfterInput("next", s)
  /\ scn' = ScnAfter("next")

\* Space / the card's star button
SuperlikeInput(src) ==
  /\ InputAllowed(src)
  /\ LET s == handleSuperlike(papers, Ctl)
     IN /\ Commit(s)
        /\ hist' = Snapshot("superlike", s.saved)
        /\ pend' = PendAfterInput("superlike", s)
  /\ scn' = ScnAfter("superlike")

\* type ExitDirection
ExitDirections == {"left", "right", "null"}

\* the rendered card calls onAnimationComplete(direction)
AnimationSignal(direction) ==
  /\ CardRendered
  /\ LET s == handleAnimationComplete(direction, Ctl)
     IN /\ Commit(s)
        /\ hist' = [Snapshot("animComplete", s.saved) EXCEPT !.arg = direction]
  /\ scn' = ScnAfter("animComplete")
  /\ UNCHANGED pend

\* the rendered card finishes the exit animation it was given
AnimationComplete ==
  /\ exitX # Null
  /\ AnimationSignal(cardDirection(exitX))

\* variant: a result for a key that is not under the cursor is dropped
FetchSucceeds_DropStale(k) ==
  /\ fetches[k] > 0
  /\ \E text \in Contents :
       LET cur == HasPaper(papers, currentIndex)
                    /\ k = <<PaperAt(papers, currentIndex), currentLevel>>
           sums == IF cur THEN [summaries EXCEPT ![k[1]][k[2]] = text]
                   ELSE summaries
           done == [fetches EXCEPT ![k] = @ - 1]
           st == fetchEffect(papers, currentIndex, currentLevel, sums,
                             [loading |-> FALSE, fetches |-> done])
       IN /\ summaries' = sums
          /\ loading' = st.loading
          /\ fetches' = st.fetches
          /\ retry' = RetryAfterLookup(sums, done, st.fetches)
  /\ late' = IF HasPaper(papers, currentIndex)
                /\ k = <<PaperAt(papers, currentIndex), currentLevel>>
             THEN Null ELSE Some(k)
  /\ UNCHANGED <<papers, currentIndex, currentLevel, exitX, exitY,
                 previousExitDirection, prefetch, hist, pend, scn>>
  /\ UNCHANGED saveVars
  /\ UNCHANGED chatVars
  /\ RunPrefetchEffect

\* paperAPI.summarize resolves: cache update, setLoading(false), effect re-run
FetchSucceeds(k) ==
  /\ fetches[k] > 0
  /\ \E text \in Contents :
       LET sums == [summaries EXCEPT ![k[1]][k[2]] = text]
           done == [fetches EXCEPT ![k] = @ - 1]
           st == fetchEffect(papers, currentIndex, currentLevel, sums,
                             [loading |-> FALSE, fetches |-> done])
       IN /\ summaries' = sums
          /\ loading' = st.loading
          /\ fetches' = st.fetches
          /\ retry' = RetryAfterLookup(sums, done, st.fetches)
  /\ late' = IF HasPaper(papers, currentIndex)
                /\ k = <<PaperAt(papers, currentIndex), currentLevel>>
             THEN Null ELSE Some(k)
  /\ UNCHANGED <<papers, currentIndex, currentLevel, exitX, exitY,
                 previousExitDirection, prefetch, hist, pend, scn>>
  /\ UNCHANGED saveVars
  /\ UNCHANGED chatVars
  /\ RunPrefetchEffect

\* variant: the rejection is cached as the summary
FetchFails_CacheFailure(k) ==
  /\ fetches[k] > 0
  /\ fetches' = [fetches EXCEPT ![k] = @ - 1]
  /\ loading' = FALSE
  /\ summaries' = [summaries EXCEPT ![k[1]][k[2]] = "error"]
  /\ retry' = RetryAfterFailure(k)
  /\ late' = Null
  /\ UNCHANGED <<papers, currentIndex, currentLevel, exitX, exitY,
                 previousExitDirection, prefetch, hist, pend, scn>>
  /\ UNCHANGED saveVars
  /\ UNCHANGED chatVars
  /\ RunPrefetchEffect

\* variant: the rejection path does not reset the loading flag
FetchFails_KeepsLoading(k) ==
  /\ fetches[k] > 0
  /\ fetches' = [fetches EXCEPT ![k] = @ - 1]
  /\ retry' = RetryAfterFailure(k)
  /\ late' = Null
  /\ UNCHANGED <<papers, currentIndex, currentLevel, summaries, loading, exitX,
                 exitY, previousExitDirection, prefetch, hist, pend, scn>>
  /\ UNCHANGED saveVars
  /\ UNCHANGED chatVars
  /\ RunPrefetchEffect

\* paperAPI.summarize rejects: nothing cached, setLoading(false)
FetchFails(k) ==
  /\ fetches[k] > 0
  /\ fetches' = [fetches EXCEPT ![k] = @ - 1]
  /\ loading' = FALSE
  /\ retry' = RetryAfterFailure(k)
  /\ late' = Null
  /\ UNCHANGED <<papers, currentIndex, currentLevel, summaries, exitX, exitY,
                 previousExitDirection, prefetch, hist, pend, scn>>
  /\ UNCHANGED saveVars
  /\ UNCHANGED chatVars
  /\ RunPrefetchEffect

\* paperAPI.batchSummarize resolves with summaries for the ids in got
PrefetchSucceeds(got) ==
  /\ prefetch = "pending"
  /\ Len(batches) > 0
  /\ got \subseteq batches[1].papers
  /\ \E text \in Contents :
       LET sums == [id \in DOMAIN summaries |->
                      IF id \in got
                      THEN [l \in Levels |-> IF l = 1 THEN text ELSE Absent]
                      ELSE summaries[id]]
           st == fetchEffect(papers, currentIndex, currentLevel, sums,
                             [loading |-> loading, fetches |-> fetches])
       IN /\ summaries' = sums
          /\ loading' = st.loading
          /\ fetches' = st.fetches
          /\ retry' = RetryAfterLookup(sums, fetches, st.fetches)
  /\ prefetch' = "done"
  /\ late' = Null
  /\ UNCHANGED <<papers, currentIndex, currentLevel, exitX, exitY,
                 previousExitDirection, hist, pend, scn>>
  /\ UNCHANGED saveVars
  /\ UNCHANGED chatVars
  /\ RunPrefetchEffect

\* variant: a rejected prefetch empties the cache
PrefetchFails_ClearsCache ==
  /\ prefetch = "pending"
  /\ prefetch' = "failed"
  /\ summaries' = [id \in DOMAIN summaries |-> [l \in Levels |-> Absent]]
  /\ late' = Null
  /\ UNCHANGED <<papers, currentIndex, currentLevel, loading, exitX,
                 exitY, previousExitDirection, fetches, hist, pend, scn, retry>>
  /\ UNCHANGED saveVars
  /\ UNCHANGED chatVars
  /\ RunPrefetchEffect

\* paperAPI.batchSummarize rejects: logged only
PrefetchFails ==
  /\ prefetch = "pending"
  /\ prefetch' = "failed"
  /\ late' = Null
  /\ UNCHANGED <<papers, currentIndex, currentLevel, summaries, loading, exitX,
                 exitY, previousExitDirection, fetches, hist, pend, scn, retry>>
  /\ UNCHANGED saveVars
  /\ UNCHANGED chatVars
  /\ RunPrefetchEffect

Next ==
  \/ \E src \in Sources : PassInput(src)
  \/ \E src \in Sources : NextInput(src)
  \/ \E src \in Sources : SuperlikeInput(src)
  \/ AnimationComplete
  \/ \E k \in Keys : FetchSucceeds(k)
  \/ \E k \in Keys : FetchFails(k)
  \/ \E got \in SUBSET CacheIds : PrefetchSucceeds(got)
  \/ PrefetchFails

Spec == Init /\ [][Next]_vars

\* ------------------------------------------------- favorites (page.tsx)
\* const existing = existingJson ? JSON.parse(existingJson) : []
readFavorites(st) == IF st = Null THEN <<>> ELSE st[1]

\* existing.some(p => p.id === paper.id)
someId(list, id) == \E i \in 1..Len(list) : list[i].id = id

\* favorites.filter(f => f.id !== id)
RECURSIVE filterId(_, _)
filterId(list, id) ==
  IF list = <<>> THEN <<>>
  ELSE IF Head(list).id = id THEN filterId(Tail(list), id)
       ELSE <<Head(list)>> \o filterId(Tail(list), id)

\* the SavedPaper built from a paper and the level it was saved at
SavedPaper(id, level) == [id |-> id, level |-> level]

\* variant: no check for an entry with the same id
pageHandleSuperlike_NoDedup(item, st) ==
  LET existing == readFavorites(st)
      updated == Append(existing, item)
  IN [stored |-> Some(updated), events |-> 1, toast |-> "success",
      first |-> Len(updated) = 1]

\* variant: the new entry is put in front
pageHandleSuperlike_Prepend(item, st) ==
  LET existing == readFavorites(st)
      updated == <<item>> \o existing
  IN IF someId(existing, item.id)
     THEN [stored |-> st, events |-> 0, toast |-> "info", first |-> FALSE]
     ELSE [stored |-> Some(updated), events |-> 1, toast |-> "success",
           first |-> Len(updated) = 1]

\* variant: the change event is not dispatched
pageHandleSuperlike_NoEvent(item, st) ==
  LET existing == readFavorites(st)
      updated == Append(existing, item)
  IN IF someId(existing, item.id)
     THEN [stored |-> st, events |-> 0, toast |-> "info", first |-> FALSE]
     ELSE [stored |-> Some(updated), events |-> 0, toast |-> "success",
           first |-> Len(updated) = 1]

\* variant: a save of an id already stored rewrites that entry
pageHandleSuperlike_Upgrade(item, st) ==
  LET existing == readFavorites(st)
      updated == Append(existing, item)
      rewritten == [i \in 1..Len(existing) |->
                      IF existing[i].id = item.id THEN item ELSE existing[i]]
  IN IF someId(existing, item.id)
     THEN [stored |-> Some(rewritten), events |-> 1, toast |-> "info",
           first |-> FALSE]
     ELSE [stored |-> Some(updated), events |-> 1, toast |-> "success",
           first |-> Len(updated) = 1]

\* page.tsx handleSuperlike after generateBibtex resolved: load, check for
\* the id, append, setItem, dispatch yuzu:favorite-added, confetti and toast
pageHandleSuperlike(item, st) ==
  LET existing == readFavorites(st)
      updated == Append(existing, item)
  IN IF someId(existing, item.id)
     THEN [stored |-> st, events |-> 0, toast |-> "info", first |-> FALSE]
     ELSE [stored |-> Some(updated), events |-> 1, toast |-> "success",
           first |-> Len(updated) = 1]

\* FavoritesList loadFavorites: the state is set only when the item exists
loadFavorites(st, cur) == IF st = Null THEN cur ELSE st[1]

swipeVars ==
  <<papers, currentIndex, currentLevel, summaries, loading, exitX, exitY,
    previousExitDirection, fetches, prefetch, hist, pend, scn, retry,
    batches, late>>

FreeTask(t) == tasks[t] = Null /\ \A u \in 1..MaxTasks : u < t => tasks[u] # Null

\* onSuperlike(paper, level): handleSuperlike runs up to await generateBibtex
SaveCall(id, level) ==
  /\ session.saves < MaxSaves
  /\ \E i \in 1..Len(papers) : papers[i] = id
  /\ \E t \in 1..MaxTasks :
       /\ FreeTask(t)
       /\ tasks' = [tasks EXCEPT ![t] =
                      Some([item |-> SavedPaper(id, level),
                            seen |-> readFavorites(stored)])]
  /\ session' = [session EXCEPT !.saves = @ + 1]
  /\ outcome' = NoOutcome
  /\ UNCHANGED <<stored, listed>>
  /\ UNCHANGED swipeVars
  /\ UNCHANGED chatVars

\* generateBibtex resolves for the call in slot t
BibtexResolves(t) ==
  /\ tasks[t] # Null
  /\ LET call == tasks[t][1]
         r == pageHandleSuperlike(call.item, stored)
     IN /\ stored' = r.stored
        /\ listed' = IF r.events > 0 THEN loadFavorites(r.stored, listed)
                     ELSE listed
        /\ outcome' = [kind |-> "resolved", item |-> Some(call.item),
                       before |-> readFavorites(stored), seen |-> call.seen,
                       events |-> r.events, toast |-> r.toast,
                       first |-> r.first]
        /\ session' = IF r.first THEN [session EXCEPT !.firsts = @ + 1]
                      ELSE session
  /\ tasks' = [tasks EXCEPT ![t] = Null]
  /\ UNCHANGED swipeVars
  /\ UNCHANGED chatVars

\* variant: the catch branch removes the stored item
BibtexRejects_DropsStore(t) ==
  /\ tasks[t] # Null
  /\ outcome' = [kind |-> "rejected", item |-> Some(tasks[t][1].item),
                 before |-> readFavorites(stored), seen |-> tasks[t][1].seen,
                 events |-> 0, toast |-> "error", first |-> FALSE]
  /\ tasks' = [tasks EXCEPT ![t] = Null]
  /\ stored' = Null
  /\ UNCHANGED <<listed, session>>
  /\ UNCHANGED swipeVars
  /\ UNCHANGED chatVars

\* generateBibtex rejects for the call in slot t: catch, error toast
BibtexRejects(t) ==
  /\ tasks[t] # Null
  /\ outcome' = [kind |-> "rejected", item |-> Some(tasks[t][1].item),
                 before |-> readFavorites(stored), seen |-> tasks[t][1].seen,
                 events |-> 0, toast |-> "error", first |-> FALSE]
  /\ tasks' = [tasks EXCEPT ![t] = Null]
  /\ UNCHANGED <<stored, listed, session>>
  /\ UNCHANGED swipeVars
  /\ UNCHANGED chatVars

\* FavoritesList handleRemove(id), from the row of a listed paper
Remove(id) ==
  /\ someId(listed, id)
  /\ LET updated == filterId(listed, id)
     IN /\ listed' = updated
        /\ stored' = Some(updated)
  /\ outcome' = NoOutcome
  /\ UNCHANGED <<tasks, session>>
  /\ UNCHANGED swipeVars
  /\ UNCHANGED chatVars

\* FavoritesList handleClearAll, confirmed
ClearAll ==
  /\ Len(listed) > 0
  /\ listed' = <<>>
  /\ stored' = Null
  /\ outcome' = NoOutcome
  /\ UNCHANGED <<tasks, session>>
  /\ UNCHANGED swipeVars
  /\ UNCHANGED chatVars

NextSave ==
  \/ \E id \in Ids, level \in Levels : SaveCall(id, level)
  \/ \E t \in 1..MaxTasks : BibtexResolves(t)
  \/ \E t \in 1..MaxTasks : BibtexRejects(t)
  \/ \E id \in Ids : Remove(id)
  \/ ClearAll

SpecSave == Init /\ [][NextSave]_vars

\* ------------------------------------------------- chat (ChatWindow)
\* a ChatMessage: its role, and for its content the paper that the handler
\* call which made it was about
ChatMessage(role, id) == [role |-> role, paper |-> id]

\* localStorage.getItem(`yuzu_chat_${id}`), parsed; [] when there is none
readChat(store, id) == IF store[id] = Null THEN <<>> ELSE store[id][1]

\* the save effect: if (currentPaper && messages.length > 0) setItem(...)
saveChatEffect(store, paper, msgs) ==
  IF paper # Null /\ Len(msgs) > 0
  THEN [store EXCEPT ![paper[1]] = Some(msgs)]
  ELSE store

\* prev.slice(0, -1)
dropLast(msgs) ==
  IF msgs = <<>> THEN <<>> ELSE SubSeq(msgs, 1, Len(msgs) - 1)

\* the renders after props.currentPaper became paper. In the first one the
\* state still holds the old messages: the load effect reads the paper's
\* item and sets the state, then the save effect, whose dependency
\* currentPaper changed, writes the old messages. The render with the loaded
\* messages runs the save effect again.
paperChangeEffects(store, paper, msgs) ==
  IF paper = Null
  THEN [messages |-> msgs, chatStored |-> store]
  ELSE LET loaded == readChat(store, paper[1])
           written == saveChatEffect(store, paper, msgs)
       IN [messages |-> loaded,
           chatStored |-> saveChatEffect(written, paper, loaded)]

\* the parent renders ChatWindow with another currentPaper (or none)
SetCurrentPaper(paper) ==
  /\ paper # currentPaper
  /\ currentPaper' = paper
  /\ LET r == paperChangeEffects(chatStored, paper, messages)
     IN messages' = r.messages /\ chatStored' = r.chatStored
  /\ chatHist' = [chatHist EXCEPT !.ev = "paper", !.call = Null]
  /\ UNCHANGED <<isLoading, error, chatCall>>
  /\ UNCHANGED swipeVars
  /\ UNCHANGED saveVars

\* handleSendMessage with a non-blank input, up to await paperAPI.chat: the
\* call gets the messages and the paper of the render the handler was made in
SendMessage ==
  /\ chatHist.sends < MaxSends
  /\ currentPaper # Null
  /\ ~isLoading
  /\ messages' = Append(messages, ChatMessage("user", currentPaper[1]))
  /\ isLoading' = TRUE
  /\ error' = Null
  /\ chatCall' = Some([paper |-> currentPaper[1],
                       history |-> messages,
                       includeFullContext |-> Len(messages) = 0,
                       \* history: the paper's stored log before this send
                       persisted |-> readChat(chatStored, currentPaper[1])])
  /\ chatStored' = saveChatEffect(chatStored, currentPaper, messages')
  /\ chatHist' = [chatHist EXCEPT !.ev = "sent", !.call = Null,
                                  !.sends = @ + 1]
  /\ UNCHANGED currentPaper
  /\ UNCHANGED swipeVars
  /\ UNCHANGED saveVars

\* paperAPI.chat resolves: the assistant message is appended to the state
\* of the moment, the save effect runs for the paper of the moment
ChatResolves ==
  /\ chatCall # Null
  /\ messages' = Append(messages, ChatMessage("assistant", chatCall[1].paper))
  /\ isLoading' = FALSE
  /\ chatStored' = saveChatEffect(chatStored, currentPaper, messages')
  /\ chatHist' = [chatHist EXCEPT !.ev = "resolved", !.call = chatCall,
                                  !.begun = @ \cup {chatCall[1].paper}]
  /\ chatCall' = Null
  /\ UNCHANGED <<currentPaper, error>>
  /\ UNCHANGED swipeVars
  /\ UNCHANGED saveVars

\* paperAPI.chat rejects: setError, the last message of the state of the
\* moment is removed, the save effect runs for the paper of the moment
ChatRejects ==
  /\ chatCall # Null
  /\ messages' = dropLast(messages)
  /\ isLoading' = FALSE
  /\ error' = Some("error")
  /\ chatStored' = saveChatEffect(chatStored, currentPaper, messages')
  /\ chatHist' = [chatHist EXCEPT !.ev = "rejected", !.call = chatCall]
  /\ chatCall' = Null
  /\ UNCHANGED currentPaper
  /\ UNCHANGED swipeVars
  /\ UNCHANGED saveVars

ChatPapers == {Null} \cup {Some(id) : id \in Ids}

NextChat ==
  \/ \E paper \in ChatPapers : SetCurrentPaper(paper)
  \/ SendMessage
  \/ ChatResolves
  \/ ChatRejects

SpecChat == Init /\ [][NextChat]_vars

\* the completion callback as an open input: any direction of its parameter
\* type, whatever exit is recorded
NextSignal ==
  \/ Next
  \/ \E direction \in ExitDirections : AnimationSignal(direction)

SpecSignal == Init /\ [][NextSignal]_vars

\* runs in which no Save input (Space, the star button) is given
NextNoSave ==
  \/ \E src \in Sources : PassInput(src)
  \/ \E src \in Sources : NextInput(src)
  \/ AnimationComplete
  \/ \E k \in Keys : FetchSucceeds(k)
  \/ \E k \in Keys : FetchFails(k)
  \/ \E got \in SUBSET CacheIds : PrefetchSucceeds(got)
  \/ PrefetchFails

SpecNoSave == Init /\ [][NextNoSave]_vars

\* the summarize call for key k ends, one way or the other
FetchCompletes(k) == FetchSucceeds(k) \/ FetchFails(k)

\* a Save input is given
SaveDelivered == \E src \in Sources : SuperlikeInput(src)

\* every issued summarize call is eventually answered and Save inputs keep
\* coming
SpecLive ==
  /\ Init /\ [][Next]_vars
  /\ \A k \in Keys : WF_vars(FetchCompletes(k))
  /\ WF_vars(SaveDelivered)

SpecEmptyId == InitEmptyId /\ [][Next]_vars

\* the long queue is walked only up to index MaxWalk
WithinWalk == currentIndex' <= MaxWalk

SuperlikeInputLong(src) == SuperlikeInput(src) /\ WithinWalk

AnimationCompleteLong == AnimationComplete /\ WithinWalk

NextLong ==
  \/ \E src \in Sources : PassInput(src)
  \/ \E src \in Sources : NextInput(src)
  \/ \E src \in Sources : SuperlikeInputLong(src)
  \/ AnimationCompleteLong
  \/ \E k \in LongKeys : FetchSucceeds(k)
  \/ \E k \in LongKeys : FetchFails(k)
  \/ \E got \in SUBSET LongCacheIds : PrefetchSucceeds(got)
  \/ PrefetchFails

SpecLong == InitLong /\ [][NextLong]_vars

\* ---------------------------------------------------------------- claims
Cursor == [index |-> currentIndex, level |-> currentLevel]
\* the cursor, and whether an exit was pending, when the last input or
\* animation event started
Pre == [index |-> hist.idx, level |-> hist.lvl]
WasPending == hist.x # Null
WasIdle == hist.x = Null

\* C1: however many Pass inputs follow a first accepted Pass before its
\* AnimationComplete, the index has advanced by at most 1 once that
\* AnimationComplete is processed (and until the next input).
C1_NoDoubleAdvance ==
  pend.first = "pass" => currentIndex <= pend.idx + 1

C1_Witness ==
  /\ pend.first = "pass" /\ pend.extra >= 2
  /\ hist.ev = "animComplete"
  /\ currentIndex = pend.idx + 1

\* C2: in every reachable state 0 <= index <= len(Queue).
C2_IndexInRange == currentIndex >= 0 /\ currentIndex <= Len(papers)

C2_Witness ==
  /\ hist.ev = "superlike" /\ hist.idx = Len(papers) - 1
  /\ currentIndex = Len(papers)

\* C3: in every reachable state the level is 1, 2 or 3.
C3_LevelInRange == currentLevel \in {1, 2, 3}

\* an Advance was pending at level 2, a Save raised the level to 3, and the
\* animation then completed
C3_Witness ==
  /\ hist.ev = "animComplete" /\ hist.lvl = 3 /\ hist.x = Some(ExitRightX)
  /\ currentLevel = 1

\* C4: every step that changes the index leaves the level equal to 1.
C4_LevelOneAfterIndexChange ==
  [][currentIndex' # currentIndex => currentLevel' = 1]_vars

C4_Witness ==
  /\ hist.ev = "animComplete" /\ hist.lvl = 3
  /\ currentIndex = hist.idx + 1 /\ currentLevel = 1

\* C5: a Pass or Advance input leaves the cursor as it was; the cursor only
\* changes at an AnimationComplete (which needs a recorded exit) or at a Save.
C5_CommitOnlyAtSignal ==
  /\ hist.ev \in {"pass", "next"} => Cursor = Pre
  /\ Cursor # Pre => hist.ev \in {"animComplete", "superlike"}
  /\ hist.ev = "animComplete" => WasPending

C5_Witness ==
  /\ hist.ev = "animComplete" /\ pend.first = "pass"
  /\ Pre = [index |-> pend.idx, level |-> hist.lvl]
  /\ Cursor = [index |-> pend.idx + 1, level |-> 1]

\* C6: while an exit is pending, a Pass or Advance input changes neither the
\* cursor nor the recorded exit (its direction and vector stay those of the
\* first accepted input).
C6_PendingDropsPassAdvance ==
  (hist.ev \in {"pass", "next"} /\ WasPending) =>
    /\ Cursor = Pre
    /\ exitX = hist.x
    /\ previousExitDirection = cardDirection(hist.x)

\* C7: while an exit is pending, a Save input changes neither the cursor nor
\* the recorded exit.
C7_PendingIgnoresSave ==
  (hist.ev = "superlike" /\ WasPending) =>
    /\ Cursor = Pre
    /\ exitX = hist.x
    /\ previousExitDirection = cardDirection(hist.x)

\* C8: with no exit pending and a paper under the cursor, a Save commits in
\* the same step: below level 3 the cursor becomes (index, level+1), at level
\* 3 it becomes (index+1, 1), and no exit is pending afterwards.
C8_SaveCommitsAtOnce ==
  (hist.ev = "superlike" /\ WasIdle /\ HasPaper(papers, hist.idx)) =>
    /\ exitX = Null /\ exitY = Null
    /\ Cursor = IF hist.lvl < 3
                THEN [index |-> hist.idx, level |-> hist.lvl + 1]
                ELSE [index |-> hist.idx + 1, level |-> 1]

C8_Witness ==
  /\ hist.ev = "superlike" /\ WasIdle /\ hist.lvl = 2
  /\ Cursor = [index |-> hist.idx, level |-> 3]
  /\ exitX = Null

\* the cursor after a Pass from the idle state s, its animation completed
PassCommitted(ps, s) ==
  LET t == handlePass(ps, s)
      u == IF t.x = Null THEN t
           ELSE handleAnimationComplete(cardDirection(t.x), t)
  IN [index |-> u.index, level |-> u.level]

PreIdle ==
  [index |-> hist.idx, level |-> hist.lvl, x |-> Null, y |-> Null,
   dir |-> previousExitDirection, saved |-> <<>>]

SavedAtLevel3 ==
  /\ hist.ev = "superlike" /\ WasIdle /\ hist.lvl = 3
  /\ HasPaper(papers, hist.idx)

\* C9 as stated: for every index, a Save at level 3 leaves the cursor a
\* committed Pass from the same state would leave, with no exit pending.
C9_SaveEqualsPassEveryIndex ==
  SavedAtLevel3 =>
    /\ Cursor = PassCommitted(papers, PreIdle)
    /\ exitX = Null

\* C9 amended: for every index < len-1, a Save at level 3 saves the paper and
\* leaves the cursor a committed Pass from the same state would leave, with
\* no exit pending.
C9_SaveEqualsPassBeforeLast ==
  (SavedAtLevel3 /\ hist.idx < Len(papers) - 1) =>
    /\ Cursor = PassCommitted(papers, PreIdle)
    /\ exitX = Null
    /\ hist.saved = << <<PaperAt(papers, hist.idx), 3>> >>

C9_Witness ==
  /\ SavedAtLevel3 /\ hist.idx < Len(papers) - 1
  /\ Cursor = [index |-> hist.idx + 1, level |-> 1]

\* C10: from (i, 1) with i < len-1, three Advance inputs each followed by its
\* AnimationComplete: level 3 on item i after the second, cursor (i+1, 1)
\* after the third, and the only onSuperlike call is the third Advance's, for
\* item i at level 3.
C10_ThreeAdvances ==
  /\ scn.step \in 1..4 => hist.saved = <<>> /\ currentIndex = scn.base
  /\ scn.step = 2 => currentLevel = 2
  /\ scn.step = 4 => currentLevel = 3
  /\ scn.step = 5 =>
       /\ hist.saved = << <<PaperAt(papers, scn.base), 3>> >>
       /\ Cursor = [index |-> scn.base, level |-> 3]
  /\ scn.step = 6 =>
       /\ hist.saved = <<>>
       /\ Cursor = [index |-> scn.base + 1, level |-> 1]

C10_Witness ==
  /\ scn.step = 6
  /\ Cursor = [index |-> scn.base + 1, level |-> 1]

\* C11: with no exit pending at level 3, an Advance calls onSuperlike for the
\* current paper at level 3 and then does what a Pass does: before the last
\* paper it records the left exit, on the last paper it leaves the exit
\* unset; the cursor is unchanged either way.
C11_AdvanceAtMaxSavesThenPasses ==
  (hist.ev = "next" /\ WasIdle /\ hist.lvl = 3) =>
    /\ hist.saved = << <<PaperAt(papers, hist.idx), 3>> >>
    /\ Cursor = Pre
    /\ IF hist.idx < Len(papers) - 1
       THEN /\ exitX = Some(ExitLeftX) /\ exitY = Some(ExitYValue)
            /\ previousExitDirection = "left"
       ELSE exitX = Null /\ exitY = Null

C11_Witness ==
  /\ hist.ev = "next" /\ WasIdle /\ hist.lvl = 3
  /\ hist.idx = Len(papers) - 1
  /\ hist.saved = << <<PaperAt(papers, hist.idx), 3>> >>
  /\ exitX = Null /\ Cursor = Pre

\* the state outside the controller that a handler could touch: the summary
\* cache, the requests in flight and the loading flag
Outside == <<summaries, fetches, loading, prefetch>>

\* C12: with no exit pending on the last paper, a Pass changes nothing: cursor,
\* exit state, cache and requests stay as they were and onSuperlike is not
\* called.
C12_PassOnLastIsNoOp ==
  [][((\E src \in Sources : PassInput(src))
        /\ exitX = Null /\ currentIndex = Len(papers) - 1)
      => /\ UNCHANGED <<currentIndex, currentLevel, exitX, exitY,
                        previousExitDirection>>
         /\ UNCHANGED Outside
         /\ hist'.saved = <<>>]_vars

C12_Witness ==
  /\ hist.ev = "pass" /\ WasIdle /\ hist.idx = Len(papers) - 1
  /\ Cursor = Pre /\ exitX = Null /\ hist.saved = <<>>

\* C14: an AnimationComplete commits the cursor change of the recorded exit
\* and clears the exit in the same step: afterwards no exit is pending.
C14_CompleteCommitsAndClears ==
  hist.ev = "animComplete" =>
    /\ exitX = Null /\ exitY = Null
    /\ Cursor = IF hist.x = Some(ExitRightX) /\ hist.lvl < 3
                THEN [index |-> hist.idx, level |-> hist.lvl + 1]
                ELSE [index |-> hist.idx + 1, level |-> 1]

C14_Witness ==
  /\ hist.ev = "animComplete" /\ hist.x = Some(ExitRightX) /\ hist.lvl = 1
  /\ Cursor = [index |-> hist.idx, level |-> 2]
  /\ exitX = Null /\ exitY = Null

\* C13: a completion signal changes the cursor only when an exit is pending
\* and its recorded direction is the signalled one; with no exit pending, or
\* another direction recorded, the cursor stays.
C13_CompleteOnlyMatchingExit ==
  (hist.ev = "animComplete" /\ Cursor # Pre) =>
    (WasPending /\ cardDirection(hist.x) = hist.arg)

\* C15: once currentIndex equals the number of papers, no step changes the
\* cursor, none records an exit, and none issues a summarize request.
C15_ExhaustedIsTerminal ==
  [][currentIndex = Len(papers) =>
       /\ UNCHANGED <<currentIndex, currentLevel>>
       /\ exitX' # Null =>
            (exitX' = exitX /\ previousExitDirection' = previousExitDirection)
       /\ \A k \in Keys : fetches'[k] <= fetches[k]]_vars

\* C16: never more than one summarize request in flight for the same paper
\* and level.
C16_SingleFlight == \A k \in Keys : fetches[k] <= 1

\* the fetch effect re-runs because the cache changed
CacheChanged == summaries' # summaries

CurrentAbsentNext ==
  summaryOf(summaries', PaperAt(papers, currentIndex), currentLevel) = Absent

NewRequestForCurrent ==
  LET k == <<PaperAt(papers, currentIndex), currentLevel>>
  IN fetches'[k] > 0 /\ fetches'[k] >= fetches[k] /\ loading'

\* C17 as stated: after summarize failed for the key under the cursor its
\* cache entry is absent, and the next lookup of the key issues a new request.
C17_AbsentAfterFailure ==
  /\ [](retry.state = "failed" => currentSummary = Absent)
  /\ [][(retry.state = "failed" /\ CacheChanged) => NewRequestForCurrent]_vars

\* C17 amended: the failure writes nothing, so the entry is what it was before
\* the failure (absent unless the prefetch or another request had filled it),
\* and the next lookup of a still absent key issues a new request.
C17_FailureStoresNothing ==
  /\ [](retry.state = "failed" => currentSummary = retry.was)
  /\ [][(retry.state = "failed" /\ retry.was = Absent /\ CacheChanged
           /\ CurrentAbsentNext)
        => NewRequestForCurrent]_vars

C17_Witness ==
  /\ retry = [state |-> "again", was |-> Absent]
  /\ currentSummary = Absent
  /\ CurrentInFlight

\* the paper under the cursor has the empty id and no cached summary at the
\* current level, so every run of the fetch effect ends in the local error
AtEmptyIdUncached ==
  /\ HasPaper(papers, currentIndex)
  /\ PaperAt(papers, currentIndex) = EmptyId
  /\ currentSummary = Absent

\* C18: a fetch for a paper with an empty id never reaches paperAPI.summarize,
\* leaves the cache as it is and leaves the loading flag false.
C18_EmptyIdFailsLocally ==
  /\ [](\A l \in Levels : fetches[<<EmptyId, l>>] = 0)
  /\ [](AtEmptyIdUncached => ~loading)
  /\ [][(AtEmptyIdUncached' /\ Cursor' # Cursor)
        => (summaries' = summaries /\ fetches' = fetches)]_vars

C18_Witness ==
  /\ AtEmptyIdUncached
  /\ currentIndex = 1
  /\ hist.idx = 0
  /\ ~loading
  /\ \A l \in Levels : fetches[<<EmptyId, l>>] = 0

\* what the component renders from: props and state, not the pending promises
Observable ==
  <<papers, currentIndex, currentLevel, summaries, loading, exitX, exitY,
    previousExitDirection>>

\* C19: when the last pending request for the uncached key under the cursor
\* fails, the rendered state changes, so that "failed" can be told from the
\* "still loading" state before it.
C19_FailureObservable ==
  [][\A k \in Keys :
       (/\ FetchFails(k)
        /\ HasPaper(papers, currentIndex)
        /\ k = <<PaperAt(papers, currentIndex), currentLevel>>
        /\ currentSummary = Absent
        /\ fetches[k] = 1)
       => Observable' # Observable]_vars

\* C20: an input taken while a summarize request for the paper and level
\* under the cursor is in flight changes neither cursor nor exit and calls
\* onSuperlike for nothing.
C20_InputDroppedWhileFetching ==
  (hist.ev \in {"pass", "next", "superlike"} /\ hist.busy) =>
    (Cursor = Pre /\ exitX = hist.x /\ hist.saved = <<>>)

\* C21: a summarize result that arrives for a key which is not under the
\* cursor is written to the cache under its key; cursor and exit state are
\* not touched by its arrival.
C21_StaleResultCachedOnly ==
  [][\A k \in Keys :
       late' = Some(k) =>
         /\ summaries'[k[1]][k[2]] \in Contents
         /\ \A j \in Keys : j # k => summaries'[j[1]][j[2]] = summaries[j[1]][j[2]]
         /\ UNCHANGED <<currentIndex, currentLevel, exitX, exitY,
                        previousExitDirection>>]_vars

C21_Witness ==
  /\ late = Some(<<1, 1>>)
  /\ currentIndex = 0 /\ currentLevel = 2
  /\ summaries[1][1] \in Contents
  /\ exitX = Null

\* C22: one batchSummarize call per mounted queue, for level 1 of the first
\* min(5, len) papers, none for an empty queue; nothing that happens later
\* issues another.
C22_PrefetchOnce ==
  batches = IF Len(papers) = 0 THEN <<>>
            ELSE << [papers |-> {papers[i] : i \in 1..(IF Len(papers) < 5
                                                       THEN Len(papers) ELSE 5)},
                     level |-> 1] >>

C22_Witness ==
  /\ Len(papers) = LongLen
  /\ Len(batches) = 1
  /\ Cardinality(batches[1].papers) = PrefetchCount
  /\ currentIndex = 1
  /\ prefetch = "done"
  /\ summaries[1][2] \in Contents

\* C23: the prefetch result changes only level-1 entries of the papers it
\* has a summary for; level-2 and level-3 entries and the entries of the
\* other papers are as before.
C23_PrefetchWritesLevelOneOnly ==
  [][\A got \in SUBSET firstFive(papers) :
       PrefetchSucceeds(got) =>
         \A id \in CacheIds : \A l \in Levels :
           (l # 1 \/ id \notin got) => summaries'[id][l] = summaries[id][l]]_vars

\* C24: a rejected prefetch leaves the cache as it is; afterwards a cursor
\* move to an uncached key still issues its summarize request, and a
\* summarize result is still stored.
C24_PrefetchFailureHarmless ==
  /\ [][(prefetch = "pending" /\ prefetch' = "failed")
          => summaries' = summaries]_vars
  /\ [][(/\ prefetch = "failed"
         /\ <<currentIndex, currentLevel>>' # <<currentIndex, currentLevel>>
         /\ HasPaper(papers, currentIndex')
         /\ summaryOf(summaries, PaperAt(papers, currentIndex'), currentLevel')
              = Absent)
        => LET k == <<PaperAt(papers, currentIndex'), currentLevel'>>
           IN fetches'[k] = fetches[k] + 1 /\ loading']_vars
  /\ [][\A k \in Keys :
          (prefetch = "failed" /\ fetches'[k] < fetches[k]
             /\ summaries' # summaries)
          => summaries'[k[1]][k[2]] \in Contents]_vars

C24_Witness ==
  /\ prefetch = "failed"
  /\ currentIndex = 0 /\ currentLevel = 2
  /\ summaries[1][2] \in Contents
  /\ summaries[1][1] \in Contents

\* the persisted collection
Favorites == readFavorites(stored)

IdsOf(list) == {list[i].id : i \in 1..Len(list)}

SaveDone == outcome.kind # "none"
SavedItem == outcome.item[1]

\* C25: the persisted collection never holds two entries with the same id,
\* however many save calls for that id are suspended at generateBibtex
\* together.
C25_OneEntryPerId ==
  \A i, j \in 1..Len(Favorites) :
    Favorites[i].id = Favorites[j].id => i = j

C25_Witness ==
  /\ SaveDone /\ outcome.kind = "resolved"
  /\ ~someId(outcome.seen, SavedItem.id)
  /\ someId(outcome.before, SavedItem.id)
  /\ outcome.toast = "info"
  /\ Cardinality({i \in 1..Len(Favorites) : Favorites[i].id = SavedItem.id}) = 1

\* C26: a save call for a paper whose id was in the collection when the
\* call was made, and still is when it ends, leaves the collection as it is
\* and shows the info toast, never the error toast.
C26_DuplicateNeverAnError ==
  (SaveDone /\ someId(outcome.seen, SavedItem.id)
     /\ someId(outcome.before, SavedItem.id))
  => (outcome.toast = "info" /\ Favorites = outcome.before)

\* C27: a save call whose generateBibtex resolved for an id not in the
\* collection leaves the collection with the new entry appended and
\* dispatches the change event once; any other save call dispatches none.
C27_AppendAndNotifyOnce ==
  SaveDone =>
    IF outcome.kind = "resolved" /\ ~someId(outcome.before, SavedItem.id)
    THEN Favorites = Append(outcome.before, SavedItem) /\ outcome.events = 1
    ELSE outcome.events = 0

C27_Witness ==
  /\ SaveDone /\ outcome.kind = "resolved"
  /\ Len(outcome.before) = 1
  /\ Favorites = Append(outcome.before, SavedItem)
  /\ outcome.events = 1

\* C28: the first-save effect is triggered at most once in a session.
C28_FirstSaveEffectOnce == session.firsts <= 1

\* C29 as stated: after a save call whose generateBibtex rejected, the
\* collection is what it was when the call was made, no change event was
\* dispatched and the error toast is shown.
C29_FailedSaveKeepsStartState ==
  (SaveDone /\ outcome.kind = "rejected") =>
    (Favorites = outcome.seen /\ outcome.events = 0 /\ outcome.toast = "error")

\* C29 amended: the failed call writes nothing: the collection is what it
\* was just before the rejection was handled.
C29_FailedSaveWritesNothing ==
  (SaveDone /\ outcome.kind = "rejected") =>
    (Favorites = outcome.before /\ outcome.events = 0 /\ outcome.toast = "error")

C29_Witness ==
  /\ SaveDone /\ outcome.kind = "rejected"
  /\ outcome.seen = <<>>
  /\ Len(outcome.before) = 1
  /\ Favorites = outcome.before
  /\ outcome.toast = "error"

\* C30: no lost update: a save call that ends in an append keeps every entry
\* that was persisted meanwhile, the list shown is the persisted one, and a
\* removal takes out the removed id only.
C30_NoLostUpdate ==
  /\ [](listed = Favorites)
  /\ []((SaveDone /\ outcome.toast = "success") =>
          /\ \A i \in 1..Len(outcome.before) : Favorites[i] = outcome.before[i]
          /\ Favorites[Len(Favorites)] = SavedItem
          /\ Len(Favorites) = Len(outcome.before) + 1)
  /\ [][\A id \in Ids : Remove(id) =>
          readFavorites(stored') = filterId(readFavorites(stored), id)]_vars

C30_Witness ==
  /\ SaveDone /\ outcome.toast = "success"
  /\ outcome.seen = <<>>
  /\ Len(outcome.before) = 1
  /\ outcome.before[1].id # SavedItem.id
  /\ IdsOf(Favorites) = {outcome.before[1].id, SavedItem.id}

\* C31: a stored entry is never modified: in every step, an id that is in
\* the saved collection before and after the step has the same entry before
\* and after (a Save of that id at another level leaves it as it was); an
\* entry changes only by leaving the collection.
C31_EntryNeverModified ==
  [][\A i \in 1..Len(Favorites) : \A j \in 1..Len(Favorites') :
       Favorites[i].id = Favorites'[j].id => Favorites[i] = Favorites'[j]]_vars

\* a Save of a stored paper at a higher level has just finished
C31_Witness ==
  /\ outcome.kind = "resolved"
  /\ outcome.item # Null
  /\ \E i \in 1..Len(Favorites) :
       /\ Favorites[i].id = outcome.item[1].id
       /\ Favorites[i].level < outcome.item[1].level

\* C32: after a chat call failed, the conversation shown and the log stored
\* for the call's paper are what they were before the user message was
\* appended.
C32_FailedChatRolledBack ==
  (chatHist.ev = "rejected") =>
    LET c == chatHist.call[1]
    IN /\ messages = c.history
       /\ readChat(chatStored, c.paper) = c.persisted

\* C33: a chat call includes the full context exactly when no call about its
\* paper has been answered before, i.e. when it carries the first message of
\* that paper's conversation.
C33_FullContextOnFirstOnly ==
  (chatCall # Null) =>
    (chatCall[1].includeFullContext <=> chatCall[1].paper \notin chatHist.begun)

\* C34: the log stored for a paper holds only messages made for that paper.
C34_LogHoldsOwnMessages ==
  \A id \in Ids :
    \A i \in 1..Len(readChat(chatStored, id)) :
      readChat(chatStored, id)[i].paper = id

\* C35: a cache entry that holds a summary holds the same summary after
\* every step.
C35_ReadyEntryStable ==
  [][\A id \in CacheIds : \A l \in Levels :
       summaries[id][l] \in Contents => summaries'[id][l] = summaries[id][l]]_vars

\* C36: a right exit is recorded only by an Advance accepted below the last
\* level; the completion of a right exit, whatever inputs came in between,
\* keeps the index and raises the level by one.
C36_AdvanceCommitKeepsIndex ==
  [][AnimationSignal("right") =>
       /\ currentIndex' = currentIndex
       /\ currentLevel' = currentLevel + 1]_vars

\* C37: every step that changes the cursor either keeps the index and raises
\* the level by one, or raises the index by one and sets the level to 1.
\* The cursor therefore grows strictly in the order (index, level): the
\* index never decreases, the level never decreases within a paper, and no
\* position is the cursor twice.
C37_CursorMoves ==
  [][Cursor' # Cursor =>
       \/ currentIndex' = currentIndex /\ currentLevel' = currentLevel + 1
       \/ currentIndex' = currentIndex + 1 /\ currentLevel' = 1]_vars

\* both moves were made: the cursor went to the second paper and an Advance
\* there was completed
C37_Witness ==
  /\ hist.ev = "animComplete" /\ hist.arg = "right"
  /\ hist.idx = 1 /\ hist.lvl = 1
  /\ currentIndex = 1 /\ currentLevel = 2

\* C38: in a run without Save inputs the index stays below the length of
\* the queue: the cursor never leaves the last paper.
C38_NoSaveNeverExhausts == currentIndex < Len(papers)

\* an Advance was given on the last paper at the last level, and the cursor
\* is still there
C38_Witness ==
  /\ hist.ev = "next"
  /\ hist.idx = Len(papers) - 1 /\ hist.lvl = MaxLevel
  /\ hist.saved # <<>>
  /\ Cursor = Pre
  /\ exitX = Null

\* no paperAPI.summarize call is awaiting its result
NoFetchInFlight == \A k \in Keys : fetches[k] = 0

\* C40: whenever no summarize request is in flight the loading flag is
\* false, so the key handler does not return early.
C40_IdleMeansNotLoading ==
  NoFetchInFlight => ~loading /\ InputAllowed("key")

\* requests overlapped and the one for an earlier cursor position completed
\* last
C40_Witness ==
  /\ late # Null
  /\ NoFetchInFlight
  /\ HasPaper(papers, currentIndex)
  /\ currentSummary # Absent

Exhausted == currentIndex = Len(papers)

\* C39: when every summarize call is eventually answered and Save inputs
\* keep coming, the queue is eventually exhausted, from every state of the
\* run.
C39_EventuallyExhausted == []<>Exhausted

\* the queue was exhausted by a Save given while the last paper's last
\* summary, whose request had failed, was missing
C39_Witness ==
  /\ Exhausted
  /\ hist.ev = "superlike" /\ hist.idx = Len(papers) - 1 /\ hist.lvl = MaxLevel
  /\ ~hist.busy
  /\ summaryOf(summaries, PaperAt(papers, Len(papers) - 1), MaxLevel) = Absent

====
